---- MODULE Spec2Model ----
(***************************************************************************)
(* Arbeitszeit-Tracker (src/src/src/App.jsx): a single React component     *)
(* that keeps a list of day entries and a daily target in component state, *)
(* mirrors them into localStorage, and derives week sums from them.        *)
(*                                                                         *)
(* Representation of JavaScript values:                                    *)
(*   - a string is a sequence of one-character strings, "" is << >>;       *)
(*   - a date string "YYYY-MM-DD" is the triple <<y, m, d>> (its order is  *)
(*     the lexicographic order localeCompare gives on padded strings);     *)
(*   - an object is a record; an absent property is an absent field;       *)
(*   - a Date object is its epoch time in minutes (every Date the program  *)
(*     builds for the calendar is minute-aligned);                         *)
(*   - a parsed JSON value is a tagged record [t |-> type, v |-> value].   *)
(***************************************************************************)
EXTENDS Integers, Sequences, FiniteSets, TLC

VARIABLES
    entries,            \* useState<DayEntry[]>            (App.jsx:82)
    selectedDate,       \* useState<string>                (App.jsx:83)
    dailyTargetMinutes, \* useState<number>                (App.jsx:84)
    activeTab,          \* useState tab                    (App.jsx:85)
    store,              \* localStorage[STORAGE_KEY]: a text or NoItem
    queue,              \* state updates scheduled and not yet rendered
    effects,            \* effects scheduled by the last commit, in order
    alertShown,         \* the last handler called alert()  (App.jsx:252)
    exported,           \* the text of the last JSON download (App.jsx:239)
    tz,                 \* local time zone: minutes east of UTC
    weekView,           \* rows of the Woche panel          (App.jsx:375)
    weekHeading,        \* date in the Woche heading        (App.jsx:364)
    calcIn,             \* clock readings from which a list of records is built
    calcOut,            \* the records built and the sums computed over them
    lastOp,             \* name of the last user event
    lastDoc,            \* the text handed to the last import
    steps,              \* number of user events so far
    initialStore,       \* what localStorage held when the page was opened
    exportedState       \* the component state when `exported` was produced

vars == <<entries, selectedDate, dailyTargetMinutes, activeTab, store, queue,
          effects, alertShown, exported, tz, weekView, weekHeading, calcIn,
          calcOut, lastOp, lastDoc, steps, initialStore, exportedState>>

appVars == <<entries, selectedDate, dailyTargetMinutes, activeTab, store, queue,
             effects, alertShown, exported, tz, weekView, weekHeading,
             lastOp, lastDoc, steps, initialStore, exportedState>>

calcVars == <<calcIn, calcOut>>

-----------------------------------------------------------------------------
(* Bounds of the model *)

\* user events explored after the page has settled
MaxSteps == 4
\* pairs a day entry may hold before the adding handlers are cut off
MaxPairs == 3
\* days after CalFirst that the calendar specification selects
CalSpan == 75
\* records in a list handed to overtimeFor, and pairs in each of them
MaxCalcLen == 2

-----------------------------------------------------------------------------
(* Strings *)

Digits == <<"0", "1", "2", "3", "4", "5", "6", "7", "8", "9">>

DigitVal(c) == (CHOOSE i \in 1..10 : Digits[i] = c) - 1

\* Number(s) for a string of decimal digits; Number("") is 0
RECURSIVE Number(_)
Number(s) ==
    IF s = <<>> THEN 0
    ELSE Number(SubSeq(s, 1, Len(s) - 1)) * 10 + DigitVal(s[Len(s)])

\* n.toString() for a non-negative integer
RECURSIVE NumToString(_)
NumToString(n) ==
    IF n < 10 THEN <<Digits[n + 1]>>
    ELSE NumToString(n \div 10) \o <<Digits[(n % 10) + 1]>>

\* s.padStart(2, "0")
PadStart2(s) == IF Len(s) >= 2 THEN s ELSE <<"0">> \o s

\* s.split(sep)
RECURSIVE Split(_, _)
Split(s, sep) ==
    IF \A i \in 1..Len(s) : s[i] # sep THEN <<s>>
    ELSE LET k == CHOOSE i \in 1..Len(s) :
                      s[i] = sep /\ \A j \in 1..(i - 1) : s[j] # sep
         IN  <<SubSeq(s, 1, k - 1)>> \o Split(SubSeq(s, k + 1, Len(s)), sep)

-----------------------------------------------------------------------------
(* Helpers (App.jsx:11-68) *)

\* `!x` for a property x of object p that is a string or absent
Falsy(p, key) == key \notin DOMAIN p \/ p[key] = <<>>

toMinutes(hhmm) ==
    IF hhmm = <<>> THEN 0
    ELSE LET parts == Split(hhmm, ":")
             h == Number(parts[1])
             m == IF Len(parts) >= 2 THEN Number(parts[2]) ELSE 0
         IN  h * 60 + m

\* toMinutes(p.x) where p.x may be undefined
toMinutesOf(p, key) == IF key \in DOMAIN p THEN toMinutes(p[key]) ELSE 0

\* a variant without the overnight correction
pairMinutesSameDay(p) ==
    IF Falsy(p, "start") \/ Falsy(p, "end") THEN 0
    ELSE toMinutesOf(p, "end") - toMinutesOf(p, "start")

pairMinutes(p) ==
    IF Falsy(p, "start") \/ Falsy(p, "end") THEN 0
    ELSE LET dm == toMinutesOf(p, "end") - toMinutesOf(p, "start")
         IN  IF dm < 0 THEN dm + 24 * 60 ELSE dm

RECURSIVE reducePairs(_, _)
reducePairs(pairs, acc) ==
    IF pairs = <<>> THEN acc
    ELSE reducePairs(Tail(pairs), acc + pairMinutes(Head(pairs)))

sumDayMinutes(entry) == reducePairs(entry.pairs, 0)

\* the string nowHHMM() returns when the local clock reads h:m
nowHHMM(h, m) == PadStart2(NumToString(h)) \o <<":">> \o PadStart2(NumToString(m))

-----------------------------------------------------------------------------
(* Date objects: epoch minutes; local time is UTC + tz, no daylight saving *)

MinutesPerDay == 24 * 60

\* days since 1970-01-01 of a civil date (proleptic Gregorian calendar)
DaysFromCivil(ymd) ==
    LET y   == IF ymd[2] <= 2 THEN ymd[1] - 1 ELSE ymd[1]
        era == y \div 400
        yoe == y - era * 400
        mp  == IF ymd[2] > 2 THEN ymd[2] - 3 ELSE ymd[2] + 9
        doy == (153 * mp + 2) \div 5 + ymd[3] - 1
        doe == yoe * 365 + yoe \div 4 - yoe \div 100 + doy
    IN  era * 146097 + doe - 719468

CivilFromDays(z) ==
    LET zz  == z + 719468
        era == zz \div 146097
        doe == zz - era * 146097
        yoe == (doe - doe \div 1460 + doe \div 36524 - doe \div 146096) \div 365
        doy == doe - (365 * yoe + yoe \div 4 - yoe \div 100)
        mp  == (5 * doy + 2) \div 153
        d   == doy - (153 * mp + 2) \div 5 + 1
        m   == IF mp < 10 THEN mp + 3 ELSE mp - 9
        y   == yoe + era * 400
    IN  <<IF m <= 2 THEN y + 1 ELSE y, m, d>>

\* new Date(dateStr + "T00:00:00"): local midnight of that date
DateAtLocalMidnight(dateStr, zone) == DaysFromCivil(dateStr) * MinutesPerDay - zone

\* d.getDay(): local day of the week, Sunday = 0 (1970-01-01 was a Thursday)
getDay(t, zone) == (((t + zone) \div MinutesPerDay) + 4) % 7

\* d.setDate(d.getDate() + k): k local calendar days later
setDatePlus(t, k) == t + k * MinutesPerDay

\* d.toISOString().slice(0, 10): the UTC date of the instant
toISODate(t) == CivilFromDays(t \div MinutesPerDay)

startOfWeek(dateStr, zone) ==
    LET d   == DateAtLocalMidnight(dateStr, zone)
        day == (getDay(d, zone) + 6) % 7
    IN  toISODate(setDatePlus(d, 0 - day))

\* a.date.localeCompare(b.date) < 0
DateBefore(a, b) ==
    \/ a[1] < b[1]
    \/ a[1] = b[1] /\ a[2] < b[2]
    \/ a[1] = b[1] /\ a[2] = b[2] /\ a[3] < b[3]

-----------------------------------------------------------------------------
(* JSON texts and values (JSON.stringify / JSON.parse, App.jsx:93,101,238,248) *)

NoItem == [kind |-> "none"]         \* localStorage.getItem(...) === null
Garbage == [kind |-> "garbage"]     \* a text JSON.parse rejects
JsonText(v) == [kind |-> "json", value |-> v]

JUndef == [t |-> "undef"]
JNull == [t |-> "null"]
JNum(n) == [t |-> "num", v |-> n]
JStr(s) == [t |-> "str", v |-> s]
JArr(a) == [t |-> "arr", v |-> a]
JObj(o) == [t |-> "obj", v |-> o]

jsonOfPair(p) == JObj([k \in DOMAIN p |-> JStr(p[k])])

jsonOfEntry(e) ==
    JObj([k \in DOMAIN e |->
            IF k = "pairs"
            THEN JArr([i \in 1..Len(e.pairs) |-> jsonOfPair(e.pairs[i])])
            ELSE JStr(e[k])])

\* a variant that serialises { entries } alone
JSONstringifyEntriesOnly(ents, target) ==
    JsonText(JObj([entries |-> JArr([i \in 1..Len(ents) |-> jsonOfEntry(ents[i])])]))

\* JSON.stringify({ entries, dailyTargetMinutes })
JSONstringify(ents, target) ==
    JsonText(JObj([entries |-> JArr([i \in 1..Len(ents) |-> jsonOfEntry(ents[i])]),
                   dailyTargetMinutes |-> JNum(target)]))

pairOfJson(j) == [k \in DOMAIN j.v |-> j.v[k].v]

entryOfJson(j) ==
    [k \in DOMAIN j.v |->
        IF k = "pairs"
        THEN [i \in 1..Len(j.v[k].v) |-> pairOfJson(j.v[k].v[i])]
        ELSE j.v[k].v]

\* the DayEntry[] a parsed array of well-formed records is
entriesOfJson(j) == [i \in 1..Len(j.v) |-> entryOfJson(j.v[i])]

\* data.key: undefined unless data is an object that has the key
Prop(data, key) ==
    IF data.t = "obj" /\ key \in DOMAIN data.v THEN data.v[key] ELSE JUndef

\* The try block shared by the load effect and the import handler
\* (App.jsx:92-96 and 247-253): which setters run, and whether it threw.
\* JSON.parse throws on garbage; reading a property of null throws.
readPersisted(text) ==
    IF text.kind # "json" \/ text.value.t = "null"
    THEN [threw |-> TRUE, updates |-> <<>>]
    ELSE LET data == text.value
             e == Prop(data, "entries")
             t == Prop(data, "dailyTargetMinutes")
             ue == IF e.t = "arr"
                   THEN <<[kind |-> "setEntries", value |-> entriesOfJson(e)]>>
                   ELSE <<>>
             ut == IF t.t = "num"
                   THEN <<[kind |-> "setTarget", value |-> t.v]>>
                   ELSE <<>>
         IN  [threw |-> FALSE, updates |-> ue \o ut]

-----------------------------------------------------------------------------
(* State updaters.  An updater yields the next array and whether it is a   *)
(* fresh array: React re-renders, and re-runs the save effect, only for a  *)
(* fresh one (Object.is).                                                  *)

Same(a) == [val |-> a, fresh |-> FALSE]
Fresh(a) == [val |-> a, fresh |-> TRUE]

\* prev.findIndex((e) => e.date === d), 1-based; 0 stands for -1
findIndex(prev, d) ==
    IF \E i \in 1..Len(prev) : prev[i].date = d
    THEN CHOOSE i \in 1..Len(prev) :
             prev[i].date = d /\ \A j \in 1..(i - 1) : prev[j].date # d
    ELSE 0

\* a stable sort by date: [...].sort((a, b) => a.date.localeCompare(b.date))
RECURSIVE sortByDate(_)
sortByDate(a) ==
    IF Len(a) <= 1 THEN a
    ELSE LET rest == sortByDate(SubSeq(a, 1, Len(a) - 1))
             x == a[Len(a)]
             \* x goes after every element that is not later than it
             n == Cardinality({i \in 1..Len(rest) : ~DateBefore(x.date, rest[i].date)})
         IN  SubSeq(rest, 1, n) \o <<x>> \o SubSeq(rest, n + 1, Len(rest))

\* the updater of the ensure-current-day effect (App.jsx:107-110)
ensureDay(prev, d) ==
    IF \E i \in 1..Len(prev) : prev[i].date = d THEN Same(prev)
    ELSE Fresh(sortByDate(Append(prev, [date |-> d, pairs |-> <<>>])))

addStartNow(prev, d, now) ==
    LET idx == findIndex(prev, d) IN
    IF idx = 0
    THEN Fresh(Append(prev, [date |-> d, pairs |-> <<[start |-> now]>>]))
    ELSE LET e == prev[idx] IN
         IF Len(e.pairs) > 0 /\ Falsy(e.pairs[Len(e.pairs)], "end")
         THEN Same(prev)
         ELSE Fresh([prev EXCEPT ![idx].pairs = Append(@, [start |-> now])])

addEndNow(prev, d, now) ==
    LET idx == findIndex(prev, d) IN
    IF idx = 0 THEN Same(prev)
    ELSE LET e == prev[idx] IN
         IF Len(e.pairs) = 0 THEN Same(prev)
         ELSE LET last == e.pairs[Len(e.pairs)] IN
              IF ~Falsy(last, "end") THEN Same(prev)
              ELSE Fresh([prev EXCEPT ![idx].pairs[Len(e.pairs)] =
                              [k \in DOMAIN last \cup {"end"} |->
                                  IF k = "end" THEN now ELSE last[k]]])

setPair(prev, d, i, key, val) ==
    LET idx == findIndex(prev, d) IN
    IF idx = 0 THEN Same(prev)
    ELSE Fresh([prev EXCEPT ![idx].pairs =
                   [j \in 1..Len(@) |->
                       IF j = i
                       THEN [k \in DOMAIN @[j] \cup {key} |->
                                IF k = key THEN val ELSE @[j][k]]
                       ELSE @[j]]])

addEmptyPair(prev, d) ==
    LET idx == findIndex(prev, d)
        p == [start |-> <<"0", "8", ":", "0", "0">>, end |-> <<"1", "6", ":", "0", "0">>]
    IN  IF idx = 0 THEN Fresh(Append(prev, [date |-> d, pairs |-> <<p>>]))
        ELSE Fresh([prev EXCEPT ![idx].pairs = Append(@, p)])

deletePair(prev, d, i) ==
    LET idx == findIndex(prev, d) IN
    IF idx = 0 THEN Same(prev)
    ELSE Fresh([prev EXCEPT ![idx].pairs =
                   SubSeq(@, 1, i - 1) \o SubSeq(@, i + 1, Len(@))])

clearDay(prev, d) ==
    Fresh([j \in 1..Len(prev) |->
              IF prev[j].date = d
              THEN [k \in DOMAIN prev[j] |-> IF k = "pairs" THEN <<>> ELSE prev[j][k]]
              ELSE prev[j]])

-----------------------------------------------------------------------------
(* Values derived at render (App.jsx:113-126, 268) *)

todayEntry(ents, d) ==
    LET idx == findIndex(ents, d) IN
    IF idx = 0 THEN [date |-> d, pairs |-> <<>>] ELSE ents[idx]

weekEntries(ents, d, zone) ==
    LET sow == startOfWeek(d, zone)
        d0 == DateAtLocalMidnight(sow, zone)
    IN  [i \in 1..7 |-> todayEntry(ents, toISODate(setDatePlus(d0, i - 1)))]

\* a variant that looks at the last pair only, as the handlers do
hasOpenPairLastOnly(e) ==
    Len(e.pairs) > 0 /\ Falsy(e.pairs[Len(e.pairs)], "end")

hasOpenPairOf(e) ==
    \E i \in 1..Len(e.pairs) : ~Falsy(e.pairs[i], "start") /\ Falsy(e.pairs[i], "end")

hasOpenPair == hasOpenPairOf(todayEntry(entries, selectedDate))

\* a variant that counts every listed day towards the target
overtimeForEveryDay(entriesList, target) ==
    LET total == LET RECURSIVE sum(_)
                     sum(l) == IF l = <<>> THEN 0
                               ELSE sumDayMinutes(Head(l)) + sum(Tail(l))
                 IN  sum(entriesList)
        tgt == Len(entriesList) * target
    IN  [total |-> total, target |-> tgt, delta |-> total - tgt]

\* overtimeFor(entriesList) with the dailyTargetMinutes of the render
overtimeFor(entriesList, target) ==
    LET total == LET RECURSIVE sum(_)
                     sum(l) == IF l = <<>> THEN 0
                               ELSE sumDayMinutes(Head(l)) + sum(Tail(l))
                 IN  sum(entriesList)
        workedDays == Cardinality({i \in 1..Len(entriesList) :
                                      sumDayMinutes(entriesList[i]) > 0})
        tgt == workedDays * target
    IN  [total |-> total, target |-> tgt, delta |-> total - tgt]

\* The body's render: the Alle panel sorts the state array in place
\* (App.jsx:435); the Woche panel shows startOfWeek and weekEntries.
renderedEntries(ents, tab) == IF tab = "alle" THEN sortByDate(ents) ELSE ents

wocheRows(ents, d, tab, zone) ==
    IF tab = "woche" THEN weekEntries(ents, d, zone) ELSE <<>>

wocheHeading(d, tab, zone) ==
    IF tab = "woche" THEN startOfWeek(d, zone) ELSE <<>>

-----------------------------------------------------------------------------
(* Inputs *)

T(h, m) == nowHHMM(h, m)

Dates == {<<2024, 1, 5>>, <<2024, 1, 8>>}
HomeZones == {60}
TzOffsets == {-720, -300, 0, 60, 330, 840}
CalFirst == <<2023, 12, 20>>
CalDates == {CivilFromDays(DaysFromCivil(CalFirst) + k) : k \in 0..CalSpan}
Tabs == {"heute", "woche", "alle"}
\* what the local clock reads when a clock button is pressed
ClockReadings == {<<9, 5>>, <<17, 30>>}
\* values a time input delivers: cleared, or a time
TimeInputs == {<<>>, T(10, 0)}
TargetInputs == {T(7, 30)}

RecA == [date |-> <<2024, 1, 8>>, pairs |-> <<[start |-> T(8, 0), end |-> T(16, 0)]>>]
RecB == [date |-> <<2024, 1, 5>>, pairs |-> <<[start |-> T(9, 5)]>>]
RecN == [date |-> <<2024, 1, 5>>, pairs |-> <<>>, note |-> <<"x">>]

\* what localStorage may hold when the page opens
InitialStores ==
    { NoItem, Garbage,
      JSONstringify(<<RecA, RecB>>, 8 * 60),
      JSONstringify(<<RecA>>, 450) }

\* files offered to the import
ImportDocs ==
    { Garbage,
      JsonText(JNull),
      JsonText(JObj([dailyTargetMinutes |-> JNum(450)])),
      JsonText(JObj([entries |-> JStr(<<"x">>), dailyTargetMinutes |-> JNum(420)])),
      JsonText(JObj([entries |-> JArr(<<jsonOfEntry(RecA)>>),
                     dailyTargetMinutes |-> JStr(<<"4", "5", "0">>)])),
      JSONstringify(<<RecA, RecN, RecB>>, 450) }

-----------------------------------------------------------------------------
(* Mount: the component renders with its default state and schedules its  *)
(* three effects; state updates made by effects are applied by the next   *)
(* render (App.jsx:82-111).                                                *)

\* a variant with the save effect declared before the load effect
MountEffectsSaveFirst == <<"save", "load", "ensureDay">>

\* the effects of the mounting commit, in the order of their declaration
MountEffects == <<"load", "save", "ensureDay">>

InitApp(dates, zones, stores) ==
    /\ entries = <<>>
    /\ selectedDate \in dates           \* todayYMD()
    /\ dailyTargetMinutes = 8 * 60
    /\ activeTab = "heute"
    /\ store \in stores
    /\ initialStore = store
    /\ queue = <<>>
    /\ effects = MountEffects
    /\ alertShown = FALSE
    /\ exported = NoItem
    /\ exportedState = <<>>
    /\ tz \in zones
    /\ weekView = <<>>
    /\ weekHeading = <<>>
    /\ lastOp = "mount"
    /\ lastDoc = NoItem
    /\ steps = 0

Settled == effects = <<>> /\ queue = <<>>

LoadEffect ==
    /\ effects # <<>> /\ Head(effects) = "load"
    /\ effects' = Tail(effects)
    /\ queue' = IF store = NoItem THEN queue
                ELSE queue \o readPersisted(store).updates
    /\ UNCHANGED <<entries, selectedDate, dailyTargetMinutes, activeTab, store,
                   alertShown, exported, tz, weekView, weekHeading, lastOp,
                   lastDoc, steps, initialStore, exportedState, calcVars>>

SaveEffect ==
    /\ effects # <<>> /\ Head(effects) = "save"
    /\ effects' = Tail(effects)
    /\ store' = JSONstringify(entries, dailyTargetMinutes)
    /\ UNCHANGED <<entries, selectedDate, dailyTargetMinutes, activeTab, queue,
                   alertShown, exported, tz, weekView, weekHeading, lastOp,
                   lastDoc, steps, initialStore, exportedState, calcVars>>

EnsureDayEffect ==
    /\ effects # <<>> /\ Head(effects) = "ensureDay"
    /\ effects' = Tail(effects)
    /\ queue' = Append(queue, [kind |-> "ensureDay", date |-> selectedDate])
    /\ UNCHANGED <<entries, selectedDate, dailyTargetMinutes, activeTab, store,
                   alertShown, exported, tz, weekView, weekHeading, lastOp,
                   lastDoc, steps, initialStore, exportedState, calcVars>>

\* one queued update applied to the pending entries
applyUpdate(r, u) ==
    IF u.kind = "setEntries" THEN Fresh(u.value)
    ELSE IF u.kind = "ensureDay"
         THEN LET n == ensureDay(r.val, u.date)
              IN  [val |-> n.val, fresh |-> r.fresh \/ n.fresh]
         ELSE r

RECURSIVE applyQueue(_, _)
applyQueue(r, q) ==
    IF q = <<>> THEN r ELSE applyQueue(applyUpdate(r, Head(q)), Tail(q))

RECURSIVE queuedTarget(_, _)
queuedTarget(t, q) ==
    IF q = <<>> THEN t
    ELSE queuedTarget(IF Head(q).kind = "setTarget" THEN Head(q).value ELSE t, Tail(q))

\* The re-render after the effects ran: the queued updates are applied in
\* order, and the save effect is scheduled when one of its dependencies
\* [entries, dailyTargetMinutes] changed.
Render ==
    /\ effects = <<>> /\ queue # <<>>
    /\ LET r == applyQueue(Same(entries), queue)
           t == queuedTarget(dailyTargetMinutes, queue)
       IN  /\ entries' = renderedEntries(r.val, activeTab)
           /\ dailyTargetMinutes' = t
           /\ effects' = IF r.fresh \/ t # dailyTargetMinutes THEN <<"save">> ELSE <<>>
           /\ weekView' = wocheRows(r.val, selectedDate, activeTab, tz)
           /\ weekHeading' = wocheHeading(selectedDate, activeTab, tz)
    /\ queue' = <<>>
    /\ UNCHANGED <<selectedDate, activeTab, store, alertShown, exported, tz,
                   lastOp, lastDoc, steps, initialStore, exportedState, calcVars>>

Mount == LoadEffect \/ SaveEffect \/ EnsureDayEffect \/ Render

-----------------------------------------------------------------------------
(* User events.  Each is the whole handler: the state update, the         *)
(* re-render, and the effects the re-render schedules (ensure-current-day *)
(* when selectedDate changed, save when entries or the target changed).   *)

CanAct == Settled /\ steps < MaxSteps

\* the model's cut-off: no day entry grows beyond MaxPairs pairs
Bounded(r) == \A i \in 1..Len(r.val) : Len(r.val[i].pairs) <= MaxPairs

\* r: the updater's result; t, d, tab: the values of the other state cells
Committed(r, t, d, tab) ==
    LET r2 == IF d # selectedDate THEN ensureDay(r.val, d) ELSE Same(r.val)
        shown == renderedEntries(r2.val, tab)
    IN  /\ entries' = shown
        /\ dailyTargetMinutes' = t
        /\ selectedDate' = d
        /\ activeTab' = tab
        /\ store' = IF r.fresh \/ r2.fresh \/ t # dailyTargetMinutes
                    THEN JSONstringify(shown, t) ELSE store
        /\ weekView' = wocheRows(shown, d, tab, tz)
        /\ weekHeading' = wocheHeading(d, tab, tz)
        /\ steps' = steps + 1
        /\ UNCHANGED <<queue, effects, tz, initialStore, calcVars>>

Quiet == alertShown' = FALSE /\ UNCHANGED <<exported, exportedState, lastDoc>>

SelectedPairs == todayEntry(entries, selectedDate).pairs

\* the date input, or the Heute button (App.jsx:305-306)
SetSelectedDate(d) ==
    /\ CanAct
    /\ Committed(Same(entries), dailyTargetMinutes, d, activeTab)
    /\ lastOp' = "selectDate" /\ Quiet

\* a tab button (App.jsx:297)
SetActiveTab(k) ==
    /\ CanAct
    /\ Committed(Same(entries), dailyTargetMinutes, selectedDate, k)
    /\ lastOp' = "tab" /\ Quiet

\* the target input (App.jsx:281)
SetTarget(v) ==
    /\ CanAct
    /\ Committed(Same(entries), toMinutes(v), selectedDate, activeTab)
    /\ lastOp' = "target" /\ Quiet

\* "Kommen jetzt": a disabled button delivers no click (App.jsx:316)
ClickKommen(h, m) ==
    /\ CanAct /\ activeTab = "heute"
    /\ LET r == IF hasOpenPair THEN Same(entries)
                ELSE addStartNow(entries, selectedDate, nowHHMM(h, m))
       IN  Bounded(r) /\ Committed(r, dailyTargetMinutes, selectedDate, activeTab)
    /\ lastOp' = "clockIn" /\ Quiet

\* "Gehen jetzt" (App.jsx:319)
ClickGehen(h, m) ==
    /\ CanAct /\ activeTab = "heute"
    /\ Committed(IF ~hasOpenPair THEN Same(entries)
                 ELSE addEndNow(entries, selectedDate, nowHHMM(h, m)),
                 dailyTargetMinutes, selectedDate, activeTab)
    /\ lastOp' = "clockOut" /\ Quiet

\* a time input of row i (App.jsx:335, 340)
EditPair(i, key, val) ==
    /\ CanAct /\ activeTab = "heute"
    /\ i \in 1..Len(SelectedPairs)
    /\ Committed(setPair(entries, selectedDate, i, key, val),
                 dailyTargetMinutes, selectedDate, activeTab)
    /\ lastOp' = "edit" /\ Quiet

\* "Paar hinzufügen" (App.jsx:322)
ClickAddPair ==
    /\ CanAct /\ activeTab = "heute"
    /\ LET r == addEmptyPair(entries, selectedDate)
       IN  Bounded(r) /\ Committed(r, dailyTargetMinutes, selectedDate, activeTab)
    /\ lastOp' = "addPair" /\ Quiet

\* "Entfernen" of row i (App.jsx:347)
ClickDeletePair(i) ==
    /\ CanAct /\ activeTab = "heute"
    /\ i \in 1..Len(SelectedPairs)
    /\ Committed(deletePair(entries, selectedDate, i),
                 dailyTargetMinutes, selectedDate, activeTab)
    /\ lastOp' = "delete" /\ Quiet

\* "Tag leeren" (App.jsx:323)
ClickClearDay ==
    /\ CanAct /\ activeTab = "heute"
    /\ Committed(clearDay(entries, selectedDate),
                 dailyTargetMinutes, selectedDate, activeTab)
    /\ lastOp' = "clearDay" /\ Quiet

handleExportJSON ==
    /\ CanAct
    /\ exported' = JSONstringify(entries, dailyTargetMinutes)
    /\ exportedState' = [entries |-> entries, dailyTargetMinutes |-> dailyTargetMinutes]
    /\ Committed(Same(entries), dailyTargetMinutes, selectedDate, activeTab)
    /\ lastOp' = "export" /\ alertShown' = FALSE /\ UNCHANGED lastDoc

\* the file input's change event and the reader's onload
handleImportJSON(text) ==
    /\ CanAct
    /\ LET got == readPersisted(text)
       IN  /\ Committed(applyQueue(Same(entries), got.updates),
                        queuedTarget(dailyTargetMinutes, got.updates),
                        selectedDate, activeTab)
           /\ alertShown' = got.threw
    /\ lastOp' = "import" /\ lastDoc' = text
    /\ UNCHANGED <<exported, exportedState>>

Next ==
    \/ Mount
    \/ \E d \in Dates : SetSelectedDate(d)
    \/ \E k \in Tabs : SetActiveTab(k)
    \/ \E v \in TargetInputs : SetTarget(v)
    \/ \E c \in ClockReadings : ClickKommen(c[1], c[2])
    \/ \E c \in ClockReadings : ClickGehen(c[1], c[2])
    \/ \E i \in 1..MaxPairs, key \in {"start", "end"}, val \in TimeInputs :
           EditPair(i, key, val)
    \/ ClickAddPair
    \/ \E i \in 1..MaxPairs : ClickDeletePair(i)
    \/ ClickClearDay
    \/ handleExportJSON
    \/ \E text \in ImportDocs \cup ({exported} \ {NoItem}) : handleImportJSON(text)

NoCalc == calcIn = <<>> /\ calcOut = [done |-> FALSE]

Init == InitApp(Dates, HomeZones, InitialStores) /\ NoCalc

Spec == Init /\ [][Next]_vars

-----------------------------------------------------------------------------
(* The calendar: the page opened on any date of a range, in any time zone, *)
(* and the tabs switched.                                                  *)

InitCal ==
    InitApp(CalDates, TzOffsets, {NoItem, JSONstringify(<<RecA>>, 450)}) /\ NoCalc

NextCal == Mount \/ \E k \in Tabs : SetActiveTab(k)

SpecCal == InitCal /\ [][NextCal]_vars

-----------------------------------------------------------------------------
(* The sums: records built the way the handlers build them from clock     *)
(* readings (nowHHMM) and cleared inputs, then summed.                     *)

At(h, m) == [k |-> "at", h |-> h, m |-> m]
Cleared == [k |-> "cleared"]    \* the input was emptied: ""
Absent == [k |-> "absent"]      \* the property was never set

GridReadings == {At(h, m) : h \in {0, 8, 23}, m \in {0, 30, 59}}

\* one period: any start and end of the grid, cleared, or no end at all
GridPeriods ==
    {[start |-> a, end |-> b] :
        a \in GridReadings \cup {Cleared}, b \in GridReadings \cup {Cleared, Absent}}

SamplePeriods ==
    { [start |-> At(8, 30), end |-> Absent],
      [start |-> At(8, 30), end |-> At(17, 0)],
      [start |-> At(22, 0), end |-> At(6, 0)] }

SeqsUpTo(S, n) == UNION {[1..k -> S] : k \in 0..n}

CalcInputs ==
    {<<<<p>>>> : p \in GridPeriods}
    \cup SeqsUpTo(SeqsUpTo(SamplePeriods, MaxCalcLen), MaxCalcLen)
    \cup {[i \in 1..5 |-> <<[start |-> At(8, 0), end |-> At(16, 0)]>>]}

fieldString(x) == IF x.k = "at" THEN nowHHMM(x.h, x.m) ELSE <<>>

buildPair(p) ==
    IF p.end.k = "absent" THEN [start |-> fieldString(p.start)]
    ELSE [start |-> fieldString(p.start), end |-> fieldString(p.end)]

\* day i of the input becomes the record of the i-th date after CalFirst
buildEntries(in) ==
    [i \in 1..Len(in) |->
        [date |-> CivilFromDays(DaysFromCivil(CalFirst) + i),
         pairs |-> [j \in 1..Len(in[i]) |-> buildPair(in[i][j])]]]

Reverse(q) == [i \in 1..Len(q) |-> q[Len(q) + 1 - i]]

InitCalc ==
    /\ InitApp({CalFirst}, HomeZones, {NoItem})
    /\ calcIn \in CalcInputs
    /\ calcOut = [done |-> FALSE]

\* a target typed into the target input before the sums are shown
CalcSetTarget ==
    /\ ~calcOut.done
    /\ \E v \in {T(0, 0), T(7, 30)} : dailyTargetMinutes' = toMinutes(v)
    /\ dailyTargetMinutes' # dailyTargetMinutes
    /\ UNCHANGED <<entries, selectedDate, activeTab, store, queue, effects,
                   alertShown, exported, tz, weekView, weekHeading, lastOp,
                   lastDoc, steps, initialStore, exportedState, calcVars>>

Compute ==
    /\ ~calcOut.done
    /\ LET list == buildEntries(calcIn) IN
       calcOut' = [done |-> TRUE,
                   list |-> list,
                   totals |-> [i \in 1..Len(list) |-> sumDayMinutes(list[i])],
                   reversedTotals |->
                       [i \in 1..Len(list) |->
                           sumDayMinutes([date |-> list[i].date,
                                          pairs |-> Reverse(list[i].pairs)])],
                   ot |-> overtimeFor(list, dailyTargetMinutes)]
    /\ UNCHANGED <<appVars, calcIn>>

NextCalc == CalcSetTarget \/ Compute

SpecCalc == InitCalc /\ [][NextCalc]_vars

-----------------------------------------------------------------------------
(* Properties *)

\* the step just taken is the user event named op
EventIs(op) == steps' = steps + 1 /\ lastOp' = op

\* the parsed value of a text is an object with this property of this type
HasProp(text, key, type) ==
    /\ text.kind = "json"
    /\ text.value.t = "obj"
    /\ key \in DOMAIN text.value.v
    /\ text.value.v[key].t = type

\* a period with a start and no end
IsOpen(p) ==
    /\ "start" \in DOMAIN p /\ p.start # <<>>
    /\ ("end" \notin DOMAIN p \/ p.end = <<>>)

AnyOpenSelected == \E i \in 1..Len(SelectedPairs) : IsOpen(SelectedPairs[i])

\* how often record x occurs in the list a
Occurrences(a, x) == Cardinality({i \in 1..Len(a) : a[i] = x})

SameRecords(a, b) ==
    /\ Len(a) = Len(b)
    /\ \A i \in 1..Len(a) : Occurrences(a, a[i]) = Occurrences(b, a[i])

\* C1: an import whose document does not parse, or whose entries is not an
\* array, or whose dailyTargetMinutes is not a number, changes neither the
\* entries nor dailyTargetMinutes.
C1_ImportAllOrNothing ==
    [][ ( /\ EventIs("import")
          /\ ~(HasProp(lastDoc', "entries", "arr")
               /\ HasProp(lastDoc', "dailyTargetMinutes", "num")) )
        => (entries' = entries /\ dailyTargetMinutes' = dailyTargetMinutes) ]_vars

\* C2: an import whose document does not parse, or parses to something
\* without an array-valued entries, leaves the entries as they were and
\* raises the alert.
C2_RejectedImportAlerts ==
    [][ (EventIs("import") /\ ~HasProp(lastDoc', "entries", "arr"))
        => (entries' = entries /\ alertShown') ]_vars

StoredIsValid ==
    /\ HasProp(initialStore, "entries", "arr")
    /\ HasProp(initialStore, "dailyTargetMinutes", "num")

StoredEntries == entriesOfJson(initialStore.value.v.entries)

MountSettled == Settled /\ steps = 0

\* C3: when the page was opened on a valid stored record and the mount
\* effects and their re-render have settled, every stored record is in the
\* entries unchanged, dailyTargetMinutes is the stored one, localStorage
\* holds exactly the component state, and, the stored record having had
\* entries, localStorage does not hold an empty entries list.
C3_StartupKeepsStoredData ==
    (MountSettled /\ StoredIsValid) =>
        /\ \A i \in 1..Len(StoredEntries) :
               \E j \in 1..Len(entries) : entries[j] = StoredEntries[i]
        /\ dailyTargetMinutes = initialStore.value.v.dailyTargetMinutes.v
        /\ store = JSONstringify(entries, dailyTargetMinutes)
        /\ (StoredEntries # <<>> => store.value.v.entries.v # <<>>)

\* the page settled on a stored record that lacked the selected day
C3_Witness ==
    /\ MountSettled /\ StoredIsValid
    /\ Len(StoredEntries) = 1
    /\ StoredEntries[1].date # selectedDate
    /\ Len(entries) = 2

\* C4: with a period of the selected day open, a press of "Kommen jetzt"
\* leaves the entries unchanged; with no period of it open, a press of
\* "Gehen jetzt" leaves the entries unchanged.
C4_ClockGating ==
    [][ /\ (EventIs("clockIn") /\ AnyOpenSelected) => entries' = entries
        /\ (EventIs("clockOut") /\ ~AnyOpenSelected) => entries' = entries ]_vars

\* "Kommen jetzt" was pressed while an earlier period was open and the last
\* period was closed
C4_Witness ==
    /\ lastOp = "clockIn"
    /\ AnyOpenSelected
    /\ Len(SelectedPairs) = 2
    /\ ~IsOpen(SelectedPairs[2])
    /\ "end" \in DOMAIN SelectedPairs[2] /\ SelectedPairs[2].end # <<>>

\* C5: no two records of the entries have the same date.
C5_DatesUnique ==
    \A i, j \in 1..Len(entries) : i # j => entries[i].date # entries[j].date

ImportedTheExport ==
    lastOp = "import" /\ exported # NoItem /\ lastDoc = exported

\* C10: right after an import of the text handleExportJSON produced, the
\* entries hold the records they held at the export (each record with its
\* date, its pairs in order and its note) and dailyTargetMinutes is the one
\* at the export, whatever happened in between; outside the Alle tab, whose
\* render sorts the array, the records are also in the same order.
C10_ExportImportRoundTrip ==
    ImportedTheExport =>
        /\ SameRecords(entries, exportedState.entries)
        /\ dailyTargetMinutes = exportedState.dailyTargetMinutes
        /\ (activeTab # "alle" => entries = exportedState.entries)

\* an export with an open period was imported back after the store had
\* moved on from it
C10_Witness ==
    /\ ImportedTheExport
    /\ steps >= 3
    /\ \E i \in 1..Len(entries) :
           \E j \in 1..Len(entries[i].pairs) : IsOpen(entries[i].pairs[j])
    /\ dailyTargetMinutes # 8 * 60

-----------------------------------------------------------------------------
(* Calendar properties, under SpecCal *)

DayNumber(dateStr) == DaysFromCivil(dateStr)

\* 1970-01-01, day 0, was a Thursday
IsMonday(dateStr) == (DayNumber(dateStr) + 3) % 7 = 0

\* C6: the week start shown for the selected date is a Monday, is not
\* later than the selected date and is at most 6 days before it.
C6_WeekStartIsMonday ==
    activeTab = "woche" =>
        /\ IsMonday(weekHeading)
        /\ DayNumber(weekHeading) <= DayNumber(selectedDate)
        /\ DayNumber(selectedDate) - DayNumber(weekHeading) <= 6

WeekRowsRight ==
    /\ Len(weekView) = 7
    /\ weekView[1].date = startOfWeek(selectedDate, tz)
    /\ \A i \in 1..6 : DayNumber(weekView[i + 1].date) = DayNumber(weekView[i].date) + 1
    /\ Cardinality({i \in 1..7 : weekView[i].date = selectedDate}) = 1
    /\ \A i \in 1..7 :
           (\A j \in 1..Len(entries) : entries[j].date # weekView[i].date)
               => weekView[i].pairs = <<>>

\* C7: the Woche panel lists 7 consecutive dates, the first of them
\* startOfWeek(selectedDate), the selected date among them exactly once,
\* a date without a stored record as an empty record; showing the panel
\* changes neither the entries nor localStorage.
C7_WeekViewSevenDays ==
    [][ activeTab' = "woche" =>
            /\ WeekRowsRight'
            /\ EventIs("tab") => (entries' = entries /\ store' = store) ]_vars

-----------------------------------------------------------------------------
(* Properties of the sums, under SpecCalc *)

ReadingMinutes(x) == x.h * 60 + x.m

\* what a period counts for, from the clock readings it was built from
ExpectedPeriod(p) ==
    IF p.start.k = "at" /\ p.end.k = "at"
    THEN LET d == ReadingMinutes(p.end) - ReadingMinutes(p.start)
         IN  IF d >= 0 THEN d ELSE d + 1440
    ELSE 0

RECURSIVE ExpectedDay(_)
ExpectedDay(day) ==
    IF day = <<>> THEN 0 ELSE ExpectedPeriod(Head(day)) + ExpectedDay(Tail(day))

RECURSIVE ExpectedTotal(_)
ExpectedTotal(in) ==
    IF in = <<>> THEN 0 ELSE ExpectedDay(Head(in)) + ExpectedTotal(Tail(in))

\* C8: a period without start or end counts 0, a period from start to end
\* counts end - start, plus 1440 when that is negative, hence a value in
\* 0..1439; the sum of a day is the sum over its periods, and is the same
\* with the periods in reverse order.
C8_DayTotal ==
    calcOut.done =>
        \A i \in 1..Len(calcIn) :
            /\ calcOut.totals[i] = ExpectedDay(calcIn[i])
            /\ calcOut.reversedTotals[i] = calcOut.totals[i]
            /\ Len(calcIn[i]) = 1 => calcOut.totals[i] \in 0..1439

\* a day with an open period, an overnight period and a same-day period
C8_Witness ==
    /\ calcOut.done
    /\ \E i \in 1..Len(calcIn) :
           /\ Len(calcIn[i]) = 2
           /\ calcIn[i][1].end.k = "at"
           /\ ReadingMinutes(calcIn[i][1].end) < ReadingMinutes(calcIn[i][1].start)
           /\ calcIn[i][2].end.k = "absent"
           /\ calcOut.totals[i] = 480

\* C9: total is the sum of the day sums, target is dailyTargetMinutes times
\* the number of records with a day sum above 0, delta is total - target;
\* the empty list gives 0, 0, 0.
C9_Aggregate ==
    calcOut.done =>
        /\ calcOut.ot.total = ExpectedTotal(calcIn)
        /\ calcOut.ot.target =
               dailyTargetMinutes
                   * Cardinality({i \in 1..Len(calcIn) : ExpectedDay(calcIn[i]) > 0})
        /\ calcOut.ot.delta = calcOut.ot.total - calcOut.ot.target
        /\ calcIn = <<>> => calcOut.ot = [total |-> 0, target |-> 0, delta |-> 0]

\* a list with a worked day and a day without minutes, under a non-zero target
C9_Witness ==
    /\ calcOut.done
    /\ dailyTargetMinutes = 450
    /\ Len(calcIn) = 2
    /\ ExpectedDay(calcIn[1]) > 0
    /\ ExpectedDay(calcIn[2]) = 0 /\ calcIn[2] # <<>>
    /\ calcOut.ot.target = 450

-----------------------------------------------------------------------------
(* The clock buttons, under Spec *)

OpenCount(pairs) == Cardinality({i \in 1..Len(pairs) : IsOpen(pairs[i])})

\* nothing was loaded or imported: every pair came from the clock buttons,
\* the add, edit, delete and clear controls
OnlyPanelEdits == initialStore = NoItem /\ lastDoc = NoItem

\* the selected day's pairs after the step are those before it plus one
\* new open pair at the end
AppendedOneOpen ==
    LET before == SelectedPairs
        after == SelectedPairs'
    IN  /\ Len(after) = Len(before) + 1
        /\ SubSeq(after, 1, Len(before)) = before
        /\ IsOpen(after[Len(after)])

\* C11: in a state made by the panel's controls alone, a press of "Gehen
\* jetzt" with a period open closes one (the number of open periods drops
\* by one), and a press of "Kommen jetzt" with none open appends exactly
\* one new open period.
C11_ClockButtonsEffective ==
    [][ OnlyPanelEdits =>
          /\ (EventIs("clockOut") /\ AnyOpenSelected)
                 => OpenCount(SelectedPairs') = OpenCount(SelectedPairs) - 1
          /\ (EventIs("clockIn") /\ ~AnyOpenSelected) => AppendedOneOpen ]_vars

====
